---- MODULE Spec2Model ----
(***************************************************************************)
(* Model of pareto/case_studies/toy_case_study.py: create_model builds a   *)
(* Pyomo ConcreteModel (sets, parameters, variables, equality constraints) *)
(* from two input mappings, and the __main__ block loads the mappings from *)
(* a spreadsheet and calls create_model once.                              *)
(*                                                                         *)
(* A Pyomo Set is an insertion-ordered collection: a sequence without      *)
(* repetitions.  A Param is a total function on the product of its index   *)
(* sets.  A constraint "var[idx] == <sum of immutable Param values>" is    *)
(* a relation record [var, idx, rhs], rhs being the number the sum         *)
(* evaluates to when the rule runs.                                        *)
(***************************************************************************)
EXTENDS Integers, Sequences, FiniteSets, TLC

VARIABLES pc, xlsx, stdout, exc, df_sets, df_parameters, heap, calls

vars == <<pc, xlsx, stdout, exc, df_sets, df_parameters, heap, calls>>

(***************************************************************************)
(* Bounds of the model.                                                    *)
(***************************************************************************)
NumLabels == 2
MaxVal == 2
MaxMissing == 1
MaxCalls == 2

(***************************************************************************)
(* Generic helpers.                                                        *)
(***************************************************************************)
Range(s) == {s[i] : i \in DOMAIN s}

RECURSIVE SumSeq(_, _)
\* Python's sum(f[x] for x in s) over an ordered collection s
SumSeq(s, f) == IF s = <<>> THEN 0 ELSE f[Head(s)] + SumSeq(Tail(s), f)

RECURSIVE SumOver(_, _)
\* mathematical sum of f over the finite set K of its arguments
SumOver(f, K) ==
    IF K = {} THEN 0
    ELSE LET k == CHOOSE x \in K : TRUE IN f[k] + SumOver(f, K \ {k})

EmptyMap == <<>>

(***************************************************************************)
(* Names looked up by create_model, in the order the code looks them up.   *)
(***************************************************************************)
SetOrder == <<"ProductionPads", "CompletionsPads", "ProductionTanks",
              "SWDSites", "TimePeriods">>

ParamOrder == <<"DriveTimes", "CompletionsDemand", "FlowbackRates",
                "ProductionRates", "InitialDisposalCapacity",
                "TwoIndexColumnParam">>

SetNames == Range(SetOrder)
ParamNames == Range(ParamOrder)

(***************************************************************************)
(* Pyomo primitives used by create_model.                                  *)
(***************************************************************************)
RECURSIVE PyomoSet(_)
\* Set(initialize=labels): members in insertion order, each kept once
PyomoSet(labels) ==
    IF labels = <<>> THEN <<>>
    ELSE LET front == PyomoSet(SubSeq(labels, 1, Len(labels) - 1))
             x == labels[Len(labels)]
         IN IF x \in Range(front) THEN front ELSE Append(front, x)

SetIntersection(A, B) == SelectSeq(A, LAMBDA x : x \in Range(B))

\* A | B : the members of A, then the members of B that are not in A
SetUnion(A, B) == A \o SelectSeq(B, LAMBDA x : x \notin Range(A))

\* index tuples of a component declared over the listed sets
Index1(A) == {<<x>> : x \in Range(A)}
Index2(A, B) == {<<x, y>> : x \in Range(A), y \in Range(B)}
Index3(A, B, C) == {<<x, y, z>> : x \in Range(A), y \in Range(B), z \in Range(C)}

LookupOrDefault(df, name) ==
    [found |-> TRUE, value |-> IF name \in DOMAIN df THEN df[name] ELSE EmptyMap]

\* df[name] on a mapping: KeyError when the name is absent
Lookup(df, name) ==
    [found |-> name \in DOMAIN df,
     value |-> IF name \in DOMAIN df THEN df[name] ELSE EmptyMap]

ValidIndexAny(table, index) == TRUE

\* Param.construct sets every entry of the initialize mapping through
\* __setitem__, which rejects (KeyError) an index outside the index set
ValidIndex(table, index) == DOMAIN table \subseteq index

ParamValueDefaultOne(table, k) == IF k \in DOMAIN table THEN table[k] ELSE 1

\* value of a Param(default=0, initialize=table) at index k
ParamValue(table, k) == IF k \in DOMAIN table THEN table[k] ELSE 0

\* Param(<index sets>, default=0, initialize=table)
Param(index, table) == [k \in index |-> ParamValue(table, k)]

\* Var(<index sets>, within=NonNegativeReals); a scalar Var has index {<<>>}
Var(index) == [index |-> index, within |-> "NonNegativeReals"]

\* the expression  var[idx] == rhs
Rel(var, idx, rhs) == [var |-> var, idx |-> idx, rhs |-> rhs]

(***************************************************************************)
(* create_model, section by section.  `model` is the ConcreteModel under   *)
(* construction: a record that gains fields as components are attached.    *)
(***************************************************************************)
\* SET DEFINITION
DeclareSets(sets) ==
    LET p == PyomoSet(Lookup(sets, "ProductionPads").value)
        c == PyomoSet(Lookup(sets, "CompletionsPads").value)
        a == PyomoSet(Lookup(sets, "ProductionTanks").value)
        d == PyomoSet(Lookup(sets, "SWDSites").value)
        t == PyomoSet(Lookup(sets, "TimePeriods").value)
    IN [p |-> p, c |-> c, a |-> a, d |-> d, t |-> t,
        l |-> PyomoSet(SetUnion(SetUnion(SetUnion(p, c), a), d))]

\* the index set each Param is declared over
ParamIndex(model, name) ==
    CASE name = "DriveTimes" -> Index2(model.l, model.l)
      [] name = "CompletionsDemand" -> Index2(model.c, model.t)
      [] name = "FlowbackRates" -> Index2(model.c, model.t)
      [] name = "ProductionRates" -> Index3(model.p, model.a, model.t)
      [] name = "InitialDisposalCapacity" -> Index1(model.d)
      [] name = "TwoIndexColumnParam" -> Index2(model.d, model.d)

\* PARAMETER DEFINITION
DeclareParams(model, parameters) ==
    LET P(name) == Param(ParamIndex(model, name), Lookup(parameters, name).value)
    IN model @@
       [p_drive_times |-> P("DriveTimes"),
        p_completion_demand |-> P("CompletionsDemand"),
        p_flowback_rates |-> P("FlowbackRates"),
        p_production_rates |-> P("ProductionRates"),
        p_initial_disposal_capacity |-> P("InitialDisposalCapacity"),
        p_two_index_column |-> P("TwoIndexColumnParam")]

\* VARIABLES DEFINITION
DeclareVars(model) ==
    model @@
    [v_drive_times |-> Var({<<>>}),
     v_completion_demand |-> Var(Index1(model.t)),
     v_flowback_rates |-> Var({<<>>}),
     v_production_rates |-> Var({<<>>}),
     v_disposal_capacity |-> Var({<<>>}),
     v_two_index_param |-> Var(Index1(model.d))]

\* TEST EQUATIONS: the rule functions
DriveTimesDiagonalRule(model) ==
    Rel("v_drive_times", <<>>,
        SumSeq(model.l, [l \in Range(model.l) |-> model.p_drive_times[<<l, l>>]]))

DriveTimesEquationRule(model) ==
    Rel("v_drive_times", <<>>,
        SumSeq(model.l, [ll \in Range(model.l) |->
            SumSeq(model.l, [l \in Range(model.l) |-> model.p_drive_times[<<l, ll>>]])]))

CompletionDemandRule(model, t) ==
    Rel("v_completion_demand", <<t>>,
        SumSeq(model.c, [c \in Range(model.c) |-> model.p_completion_demand[<<c, t>>]]))

FlowBackRatesRule(model) ==
    Rel("v_flowback_rates", <<>>,
        SumSeq(model.t, [t \in Range(model.t) |->
            SumSeq(model.c, [c \in Range(model.c) |-> model.p_flowback_rates[<<c, t>>]])]))

ProductionRatesRule(model) ==
    Rel("v_production_rates", <<>>,
        SumSeq(model.t, [t \in Range(model.t) |->
            SumSeq(model.a, [a \in Range(model.a) |->
                SumSeq(model.p, [p \in Range(model.p) |->
                    model.p_production_rates[<<p, a, t>>]])])]))

DisposalCapacityFirstRule(model) ==
    Rel("v_disposal_capacity", <<>>,
        IF model.d = <<>> THEN 0 ELSE model.p_initial_disposal_capacity[<<Head(model.d)>>])

DisposalCapacityRule(model) ==
    Rel("v_disposal_capacity", <<>>,
        SumSeq(model.d, [d \in Range(model.d) |-> model.p_initial_disposal_capacity[<<d>>]]))

TwoIndexColumnParameterRule(model, d) ==
    Rel("v_two_index_param", <<d>>,
        SumSeq(model.d, [dd \in Range(model.d) |-> model.p_two_index_column[<<d, dd>>]]))

\* TEST EQUATIONS: the Constraint components and the rule each is given.
\* A rule that takes only the model is called with the model alone, also
\* for every index of an indexed Constraint (Pyomo's apply_indexed_rule
\* falls back to rule(model) when rule(model, index) does not fit).
e_drive_times(model) == DriveTimesEquationRule(model)

e_completion_demand_by_own_rule(model) ==
    [t \in Range(model.t) |-> CompletionDemandRule(model, t)]

e_completion_demand(model) ==
    [t \in Range(model.t) |-> DriveTimesEquationRule(model)]

e_flowback_rates(model) == DriveTimesEquationRule(model)

e_production_rates(model) == DriveTimesEquationRule(model)

e_disposal_capacity(model) == DisposalCapacityRule(model)

e_two_index_column_param(model) ==
    [d \in Range(model.d) |-> TwoIndexColumnParameterRule(model, d)]

DeclareConstraints(model) ==
    model @@
    [e_drive_times |-> e_drive_times(model),
     e_completion_demand |-> e_completion_demand(model),
     e_flowback_rates |-> e_flowback_rates(model),
     e_production_rates |-> e_production_rates(model),
     e_disposal_capacity |-> e_disposal_capacity(model),
     e_two_index_column_param |-> e_two_index_column_param(model)]

\* position in SetOrder of the first df_sets[...] that raises, 0 if none does
FirstSetFailure(sets) ==
    LET bad == {i \in DOMAIN SetOrder : ~Lookup(sets, SetOrder[i]).found}
    IN IF bad = {} THEN 0 ELSE CHOOSE i \in bad : \A j \in bad : i <= j

\* the Param statement for `name` raises: at the lookup or at an index
ParamLookupFails(parameters, name) == ~Lookup(parameters, name).found

ParamIndexFails(model, parameters, name) ==
    /\ Lookup(parameters, name).found
    /\ ~ValidIndex(Lookup(parameters, name).value, ParamIndex(model, name))

\* position in ParamOrder of the first Param statement that raises, 0 if none
FirstParamFailure(model, parameters) ==
    LET bad == {i \in DOMAIN ParamOrder :
                   \/ ParamLookupFails(parameters, ParamOrder[i])
                   \/ ParamIndexFails(model, parameters, ParamOrder[i])}
    IN IF bad = {} THEN 0 ELSE CHOOSE i \in bad : \A j \in bad : i <= j

NoModel == EmptyMap

Raise(kind, key) == [exc |-> "KeyError", kind |-> kind, key |-> key, model |-> NoModel]

Return(model) == [exc |-> "none", kind |-> "", key |-> "", model |-> model]

\* create_model(df_sets, df_parameters): the model it returns or the
\* exception that leaves it
create_model(sets, parameters) ==
    LET fs == FirstSetFailure(sets) IN
    IF fs # 0 THEN Raise("lookup", SetOrder[fs])
    ELSE LET model == DeclareSets(sets)
             fp == FirstParamFailure(model, parameters)
         IN IF fp # 0
            THEN Raise(IF ParamLookupFails(parameters, ParamOrder[fp])
                       THEN "lookup" ELSE "index", ParamOrder[fp])
            ELSE Return(DeclareConstraints(DeclareVars(DeclareParams(model, parameters))))

(***************************************************************************)
(* The __main__ block.                                                     *)
(***************************************************************************)
set_list == <<"ProductionPads", "CompletionsPads", "SWDSites", "ProductionTanks">>

parameter_list == <<"DriveTimes", "CompletionsDemand", "FlowbackRates",
                    "ProductionRates", "InitialDisposalCapacity",
                    "TwoIndexColumnParam">>

fpath == "pareto/case_studies/toy_case_study.xlsx"

Restrict(f, D) == [x \in D |-> f[x]]

\* pareto.utilities.get_data: one tab read per requested name; a requested
\* tab that the workbook lacks is a DataFormatError
get_data(book, sets, parameters) ==
    IF /\ Range(sets) \subseteq DOMAIN book.sets
       /\ Range(parameters) \subseteq DOMAIN book.params
    THEN [exc |-> "none",
          df_sets |-> Restrict(book.sets, Range(sets)),
          df_parameters |-> Restrict(book.params, Range(parameters))]
    ELSE [exc |-> "DataFormatError", df_sets |-> EmptyMap, df_parameters |-> EmptyMap]

(***************************************************************************)
(* Inputs.  Labels of the varying sets come from a pool of NumLabels       *)
(* names; the fixed sets use the labels of the documented scenario.        *)
(***************************************************************************)
LabelNames == <<"L1", "L2", "L3", "L4", "L5", "L6">>

Pool == SubSeq(LabelNames, 1, NumLabels)

\* label columns without repetitions, in pool order
Columns == {SelectSeq(Pool, LAMBDA x : x \in S) : S \in SUBSET Range(Pool)}

SetsOf(p, c, a, d, t) ==
    [ProductionPads |-> p, CompletionsPads |-> c, ProductionTanks |-> a,
     SWDSites |-> d, TimePeriods |-> t]

Position(name) == CHOOSE i \in DOMAIN ParamOrder : ParamOrder[i] = name

\* a table with an entry for every index tuple of its parameter
DenseParams(sets) ==
    [name \in ParamNames |->
        [k \in ParamIndex(DeclareSets(sets), name) |-> Position(name)]]

ScenarioSets == SetsOf(<<"P1">>, <<"C1">>, <<"A1">>, <<"D1">>, <<"T1">>)

Scenario ==
    [sets |-> ScenarioSets,
     params |-> [name \in ParamNames |->
                    IF name = "InitialDisposalCapacity"
                    THEN (<<"D1">> :> 50) ELSE EmptyMap]]

\* the location sets vary and overlap; the tables are dense
VarySets ==
    {[sets |-> SetsOf(p, c, a, d, <<"T1", Pool[1]>>),
      params |-> DenseParams(SetsOf(p, c, a, d, <<"T1", Pool[1]>>))] :
        p \in Columns, c \in Columns, a \in Columns, d \in Columns}

BaseSets == SetsOf(<<"P1">>, <<"C1">>, <<"A1">>, <<"D1", "D2">>, <<"T1", "T2">>)

\* keys a sparse table may hold; the last one of each row is outside the
\* parameter's index sets
KeyPool(name) ==
    CASE name = "DriveTimes" -> {<<"P1", "C1">>, <<"D1", "D2">>, <<"P1", "T1">>}
      [] name = "CompletionsDemand" -> {<<"C1", "T1">>, <<"C1", "T2">>, <<"P1", "T1">>}
      [] name = "FlowbackRates" -> {<<"C1", "T1">>, <<"C1", "T2">>, <<"C1", "D1">>}
      [] name = "ProductionRates" ->
            {<<"P1", "A1", "T1">>, <<"P1", "A1", "T2">>, <<"A1", "P1", "T1">>}
      [] name = "InitialDisposalCapacity" -> {<<"D1">>, <<"D2">>, <<"P1">>}
      [] name = "TwoIndexColumnParam" -> {<<"D1", "D1">>, <<"D1", "D2">>, <<"D2", "P1">>}

BadKey(name) == CHOOSE k \in KeyPool(name) : k \notin ParamIndex(DeclareSets(BaseSets), name)

SparseTables(name) == UNION {[K -> 1..MaxVal] : K \in SUBSET KeyPool(name)}

\* one table is sparse, the others dense
VaryTable ==
    UNION {{[sets |-> BaseSets,
             params |-> [n \in ParamNames |->
                            IF n = name THEN tbl ELSE DenseParams(BaseSets)[n]]] :
               tbl \in SparseTables(name)} : name \in ParamNames}

\* names are missing from the mappings, and a table may hold a bad key
VaryNames ==
    {[sets |-> Restrict(BaseSets, SetNames \ missing),
      params |-> [n \in ParamNames \ missing |->
                     IF n = bad THEN (BadKey(n) :> 1) @@ DenseParams(BaseSets)[n]
                     ELSE DenseParams(BaseSets)[n]]] :
        missing \in {M \in SUBSET (SetNames \cup ParamNames) : Cardinality(M) <= MaxMissing},
        bad \in ParamNames \cup {"none"}}

InputSpace == {Scenario} \cup VarySets \cup VaryTable \cup VaryNames

\* inputs a caller passes to a later call
LaterInputs ==
    {Scenario,
     [sets |-> Restrict(BaseSets, SetNames \ {"TimePeriods"}),
      params |-> DenseParams(BaseSets)]}

NoWorkbook == [sets |-> EmptyMap, params |-> EmptyMap]

(***************************************************************************)
(* State machine.                                                          *)
(*   pc            "start" / "printed" / "loaded" / "built" / "error" for  *)
(*                 a run of the script, "imported" when another program    *)
(*                 imports the module and calls create_model itself        *)
(*   xlsx          the tabs of the workbook the script reads               *)
(*   stdout        lines printed                                           *)
(*   exc           the exception that ended the script, "none" otherwise   *)
(*   df_sets, df_parameters   the caller's two mappings                    *)
(*   heap          the model objects callers hold, by object identity      *)
(*   calls         one record per finished call of create_model            *)
(***************************************************************************)
Init ==
    /\ stdout = <<>>
    /\ exc = "none"
    /\ heap = <<>>
    /\ calls = <<>>
    /\ \/ /\ pc = "start"
          /\ xlsx \in InputSpace
          /\ df_sets = EmptyMap
          /\ df_parameters = EmptyMap
       \/ /\ pc = "imported"
          /\ xlsx = NoWorkbook
          /\ \E inp \in InputSpace :
                /\ df_sets = inp.sets
                /\ df_parameters = inp.params

SharedModel(h) == 1

\* model=ConcreteModel(): a new object, distinct from every live one
NewModel(h) == Len(h) + 1

\* one call create_model(df_sets, df_parameters) and what the caller sees
Call(r) ==
    LET ref == IF r.exc = "none" THEN NewModel(heap) ELSE 0 IN
    /\ UNCHANGED <<df_sets, df_parameters>>
    /\ heap' = IF r.exc = "none"
               THEN [i \in DOMAIN heap \cup {ref} |-> IF i = ref THEN r.model ELSE heap[i]]
               ELSE heap
    /\ calls' = Append(calls,
                   [sets |-> df_sets, params |-> df_parameters,
                    sets_after |-> df_sets', params_after |-> df_parameters',
                    exc |-> r.exc, kind |-> r.kind, key |-> r.key,
                    ret |-> ref, returned |-> r.model])

PrintPath ==
    /\ pc = "start"
    /\ stdout' = Append(stdout, <<"Reading file from", fpath>>)
    /\ pc' = "printed"
    /\ UNCHANGED <<xlsx, exc, df_sets, df_parameters, heap, calls>>

GetData ==
    /\ pc = "printed"
    /\ LET r == get_data(xlsx, set_list, parameter_list) IN
       /\ exc' = r.exc
       /\ pc' = IF r.exc = "none" THEN "loaded" ELSE "error"
       /\ df_sets' = r.df_sets
       /\ df_parameters' = r.df_parameters
    /\ UNCHANGED <<xlsx, stdout, heap, calls>>

MainCreateModel ==
    /\ pc = "loaded"
    /\ LET r == create_model(df_sets, df_parameters) IN
       /\ Call(r)
       /\ exc' = r.exc
       /\ pc' = IF r.exc = "none" THEN "built" ELSE "error"
    /\ UNCHANGED <<xlsx, stdout>>

CallCreateModel ==
    /\ pc = "imported"
    /\ Len(calls) < MaxCalls
    /\ Call(create_model(df_sets, df_parameters))
    /\ UNCHANGED <<pc, xlsx, stdout, exc>>

CallerRebinds ==
    /\ pc = "imported"
    /\ 0 < Len(calls)
    /\ Len(calls) < MaxCalls
    /\ \E inp \in LaterInputs :
          /\ df_sets' = inp.sets
          /\ df_parameters' = inp.params
    /\ UNCHANGED <<pc, xlsx, stdout, exc, heap, calls>>

Next ==
    \/ PrintPath
    \/ GetData
    \/ MainCreateModel
    \/ CallCreateModel
    \/ CallerRebinds

Spec == Init /\ [][Next]_vars

(***************************************************************************)
(* Properties.  They speak about the call of create_model that finished    *)
(* last; every call is the last one in the state that follows it.          *)
(***************************************************************************)
Called == calls # <<>>

last == calls[Len(calls)]

Returned == Called /\ last.exc = "none"

ParamField ==
    [DriveTimes |-> "p_drive_times", CompletionsDemand |-> "p_completion_demand",
     FlowbackRates |-> "p_flowback_rates", ProductionRates |-> "p_production_rates",
     InitialDisposalCapacity |-> "p_initial_disposal_capacity",
     TwoIndexColumnParam |-> "p_two_index_column"]

\* sum of all values of the function f
Total(f) == SumOver(f, DOMAIN f)

\* sum of the values of f at the index tuples whose position i holds x
TotalAt(f, i, x) == SumOver(f, {k \in DOMAIN f : k[i] = x})

\* every relation a model holds, indexed instances included
Constraints(m) ==
    {m.e_drive_times, m.e_flowback_rates, m.e_production_rates, m.e_disposal_capacity}
    \cup Range(m.e_completion_demand) \cup Range(m.e_two_index_column_param)

AllNamesPresent(call) ==
    /\ SetNames \subseteq DOMAIN call.sets
    /\ ParamNames \subseteq DOMAIN call.params

\* the tables of a call that hold a key outside their parameter's index sets
BadTables(call) ==
    IF SetNames \subseteq DOMAIN call.sets
    THEN {n \in DOMAIN call.params :
            ~(DOMAIN call.params[n] \subseteq ParamIndex(DeclareSets(call.sets), n))}
    ELSE {}

\* C1: in every returned model each constraint equates its own variable
\* with the sum of its own parameter over the non-fixed index positions
C1_EachConstraintOwnAggregate ==
    Returned =>
        LET m == last.returned IN
        /\ m.e_drive_times = Rel("v_drive_times", <<>>, Total(m.p_drive_times))
        /\ \A t \in Range(m.t) :
              m.e_completion_demand[t] =
                  Rel("v_completion_demand", <<t>>, TotalAt(m.p_completion_demand, 2, t))
        /\ m.e_flowback_rates = Rel("v_flowback_rates", <<>>, Total(m.p_flowback_rates))
        /\ m.e_production_rates =
              Rel("v_production_rates", <<>>, Total(m.p_production_rates))
        /\ m.e_disposal_capacity =
              Rel("v_disposal_capacity", <<>>, Total(m.p_initial_disposal_capacity))
        /\ \A d \in Range(m.d) :
              m.e_two_index_column_param[d] =
                  Rel("v_two_index_param", <<d>>, TotalAt(m.p_two_index_column, 1, d))

\* C2: the set l of a returned model holds exactly the labels of
\* ProductionPads, CompletionsPads, ProductionTanks and SWDSites, each once
C2_UnionSetExact ==
    Returned =>
        LET m == last.returned IN
        /\ Range(m.l) = Range(last.sets["ProductionPads"])
                        \cup Range(last.sets["CompletionsPads"])
                        \cup Range(last.sets["ProductionTanks"])
                        \cup Range(last.sets["SWDSites"])
        /\ \A i, j \in DOMAIN m.l : m.l[i] = m.l[j] => i = j

C2_Witness ==
    /\ Returned
    /\ \E x \in Range(last.sets["ProductionPads"]) :
          x \in Range(last.sets["SWDSites"]) \cap Range(last.sets["CompletionsPads"])
    /\ \E x \in Range(last.sets["TimePeriods"]) : x \notin Range(last.returned.l)
    /\ \E x \in Range(last.sets["TimePeriods"]) : x \in Range(last.returned.l)

\* C3: e_disposal_capacity of a returned model requires v_disposal_capacity
\* to equal the sum of InitialDisposalCapacity over the labels of SWDSites,
\* which is 50 in the documented scenario
C3_DisposalCapacity ==
    Returned =>
        LET tbl == last.params["InitialDisposalCapacity"]
            cap == [d \in Range(last.sets["SWDSites"]) |->
                       IF <<d>> \in DOMAIN tbl THEN tbl[<<d>>] ELSE 0]
        IN /\ last.returned.e_disposal_capacity =
                 Rel("v_disposal_capacity", <<>>, Total(cap))
           /\ (last.sets = Scenario.sets /\ last.params = Scenario.params)
                 => last.returned.e_disposal_capacity.rhs = 50

C3_Witness ==
    /\ Returned
    /\ last.sets = Scenario.sets
    /\ last.params = Scenario.params
    /\ last.returned.e_disposal_capacity = Rel("v_disposal_capacity", <<>>, 50)

\* the assignment that gives each variable the aggregate of its parameter
Aggregates(m) ==
    [v_drive_times |-> [i \in {<<>>} |-> Total(m.p_drive_times)],
     v_completion_demand |->
        [i \in Index1(m.t) |-> TotalAt(m.p_completion_demand, 2, i[1])],
     v_flowback_rates |-> [i \in {<<>>} |-> Total(m.p_flowback_rates)],
     v_production_rates |-> [i \in {<<>>} |-> Total(m.p_production_rates)],
     v_disposal_capacity |-> [i \in {<<>>} |-> Total(m.p_initial_disposal_capacity)],
     v_two_index_param |->
        [i \in Index1(m.d) |-> TotalAt(m.p_two_index_column, 1, i[1])]]

NonNegative(m) ==
    \A n \in ParamNames : \A k \in DOMAIN m[ParamField[n]] : m[ParamField[n]][k] >= 0

\* C4: with non-negative parameter values, giving every variable the exact
\* aggregate of its parameter satisfies every constraint of a returned
\* model, indexed instances included, within the variables' domain
C4_AggregatesSatisfyAll ==
    (Returned /\ NonNegative(last.returned)) =>
        LET m == last.returned
            val == Aggregates(m)
        IN /\ \A rel \in Constraints(m) :
                 /\ rel.idx \in m[rel.var].index
                 /\ val[rel.var][rel.idx] = rel.rhs
           /\ \A v \in DOMAIN val : \A i \in DOMAIN val[v] :
                 /\ i \in m[v].index
                 /\ val[v][i] >= 0

C4_Witness ==
    /\ Returned
    /\ NonNegative(last.returned)
    /\ Len(last.returned.t) > 1
    /\ Len(last.returned.d) > 1
    /\ last.returned.e_drive_times.rhs > 0
    /\ Total(last.returned.p_completion_demand) # Total(last.returned.p_drive_times)

HasScriptTabs ==
    /\ Range(set_list) \subseteq DOMAIN xlsx.sets
    /\ Range(parameter_list) \subseteq DOMAIN xlsx.params

\* C5: a run of the script on a workbook that has every tab of set_list and
\* parameter_list prints the path, loads the data and ends with a built model
C5_ScriptBuildsModel ==
    (pc \in {"built", "error"} /\ HasScriptTabs) =>
        /\ pc = "built"
        /\ stdout = <<(<<"Reading file from", fpath>>)>>
        /\ Returned

\* C6: when a set or parameter name that create_model references is missing
\* from the input mappings, the call ends in a KeyError (the lookup of the
\* first missing name, unless a table declared earlier holds an invalid
\* index) and the caller receives no model
C6_MissingNameKeyError ==
    (Called /\ ~AllNamesPresent(last)) =>
        /\ last.exc = "KeyError"
        /\ last.ret = 0
        /\ last.returned = NoModel
        /\ pc # "built"
        /\ Len(heap) = Cardinality({i \in DOMAIN calls : calls[i].exc = "none"})
        /\ BadTables(last) = {} =>
              /\ last.kind = "lookup"
              /\ last.key \in (SetNames \ DOMAIN last.sets)
                               \cup (ParamNames \ DOMAIN last.params)

C6_Witness ==
    /\ Called
    /\ SetNames \subseteq DOMAIN last.sets
    /\ "ProductionRates" \notin DOMAIN last.params
    /\ last.exc = "KeyError"
    /\ last.key = "ProductionRates"

\* C7: every parameter of a returned model is defined on the full product of
\* its index sets; a tuple without an entry in the input table has the value
\* 0 and adds nothing to the sums, a tuple with an entry has the input value
C7_DefaultZero ==
    Returned =>
        LET m == last.returned IN
        /\ \A n \in ParamNames :
              /\ DOMAIN m[ParamField[n]] = ParamIndex(m, n)
              /\ \A k \in ParamIndex(m, n) :
                    m[ParamField[n]][k] =
                        IF k \in DOMAIN last.params[n] THEN last.params[n][k] ELSE 0
        /\ m.e_drive_times.rhs = Total(last.params["DriveTimes"])
        /\ m.e_disposal_capacity.rhs = Total(last.params["InitialDisposalCapacity"])
        /\ \A d \in Range(m.d) :
              m.e_two_index_column_param[d].rhs =
                  TotalAt(last.params["TwoIndexColumnParam"], 1, d)

C7_Witness ==
    /\ Returned
    /\ \E k \in ParamIndex(last.returned, "TwoIndexColumnParam") :
          /\ k \notin DOMAIN last.params["TwoIndexColumnParam"]
          /\ last.returned.p_two_index_column[k] = 0
    /\ \E k \in DOMAIN last.params["TwoIndexColumnParam"] :
          last.returned.p_two_index_column[k] = MaxVal

C9_IndexMismatch ==
    Called =>
        /\ BadTables(last) # {} =>
              /\ last.exc # "none"
              /\ last.ret = 0
              /\ last.returned = NoModel
              /\ AllNamesPresent(last) =>
                    /\ last.kind = "index"
                    /\ last.key \in BadTables(last)
        /\ Returned =>
              \A n \in ParamNames :
                  /\ DOMAIN last.params[n] \subseteq DOMAIN last.returned[ParamField[n]]
                  /\ DOMAIN last.returned[ParamField[n]] \subseteq ParamIndex(last.returned, n)

C9_Witness ==
    /\ Called
    /\ AllNamesPresent(last)
    /\ "InitialDisposalCapacity" \in BadTables(last)
    /\ last.kind = "index"
    /\ last.ret = 0

====
